---- MODULE Spec2Model ----
(***************************************************************************)
(* The flight booking transaction engine of flight_booking/ (Django):      *)
(* BookingService.create_booking / cancel_booking over the Flight,         *)
(* Booking, PaymentTransaction, BookingHistory and FareHistory tables,     *)
(* with PricingEngine.calculate_dynamic_fare.                              *)
(*                                                                         *)
(* Storage is a row-locking database at READ COMMITTED: a plain read sees  *)
(* the committed rows plus the transaction's own writes, SELECT ... FOR    *)
(* UPDATE and UPDATE wait for the row's lock and then see the latest       *)
(* committed row, an INSERT into a unique index waits for an uncommitted   *)
(* insert of the same key, and everything a transaction wrote appears at   *)
(* its commit or not at all.                                               *)
(*                                                                         *)
(* Money is in hundredths of a rupee, factors in hundredths, time in       *)
(* whole hours.                                                            *)
(***************************************************************************)
EXTENDS Integers, Sequences, FiniteSets, Bags, TLC

(* ------------------------------ bounds -------------------------------- *)
NFlights == 2
NProcs == 2
MaxBookings == 2
RaceMaxBookings == 4
MaxNow == 1
LateNow == 4
LateMaxBookings == 1
ExhaustMaxBookings == 3
MaxFareRows == 2
ServiceMaxBookings == 1
MaxPricingSeats == 20
MaxPricingHours == 170
OddFare == 123457
FareCheckLimit == 190000
HalfwayFare == 10030
ExampleTotalSeats == 180
ExampleSeats == 30
ExampleHours == 10
MaxSqBookings == 2
MaxSimSteps == 2
SqStartSeats == 20
SqRaceSeats == 1
LayoutMaxBookings == 1
LiveMaxBookings == 2
MaxSqPricingSeats == 10
FirstTotalSeats == 1
DepartureHour == 3
BaseFare == 500000

Flights == 1..NFlights
FlightIds == 1..(NFlights + 1)          \* the last id names no flight
Procs == 1..NProcs
Seats == {"1A", "1B"}
Codes == {"AA0001", "AA0002"}
DemandLevels == {"LOW", "MEDIUM", "HIGH"}

(* ----------------------- program constants ---------------------------- *)
CancelCutoffHours == 2
SqSeatCap == 180
BusinessRows == 5
LastRow == 30

(* ------------------------ flight attributes --------------------------- *)
\* Columns of a Flight row that no engine operation writes.
total_seats(f) == FirstTotalSeats + f - 1
departure_time(f) == DepartureHour
base_fare(f) == BaseFare

VARIABLES
    now,            \* timezone.now(), in hours
    notNullFk,      \* whether payment_transactions.booking_id rejects NULL
    flights,        \* committed Flight rows: f -> [seats_available]
    bookings,       \* committed Booking rows, in insertion order (index = pk)
    transactions,   \* committed PaymentTransaction rows (a bag)
    history,        \* committed BookingHistory rows (a bag)
    fare_history,   \* committed FareHistory rows (a bag)
    pc,             \* each request process's position
    tx,             \* each request's arguments, locals and uncommitted writes
    result,         \* what a finished call returns or raises, until the
                    \* caller has taken it
    caller,         \* what a caller that books and then cancels keeps
                    \* between its two calls
    pricing,        \* the last call of a pricing function: arguments, value
    sq              \* the SQLite engine: flights.db and its connections

vars == <<now, notNullFk, flights, bookings, transactions, history,
          fare_history, pc, tx, result, caller, pricing, sq>>

db == <<flights, bookings, transactions, history, fare_history>>

\* Flight.status, which no engine operation writes.
status(f) == flights[f].status
StatusChoices == {"SCHEDULED", "DELAYED", "CANCELLED"}

NoTx == [flight_id |-> 0, seat_number |-> "", pnr |-> "", seats |-> 0,
         final_fare |-> 0, quote |-> EmptyBag, payment |-> "", booking |-> 0,
         seat_map |-> [booked_seats |-> <<>>, business |-> <<>>,
                       economy |-> <<>>]]

NoTrip == [stage |-> "", before |-> 0, pnr |-> ""]

NoPricing == [call |-> "", base_fare |-> 0, total_seats |-> 0,
              seats_available |-> 0, hours_left |-> 0, demand_level |-> "",
              value |-> 0]

\* flights.db after setup_flights(): every flight has seats left and there
\* is no booking; the simulator is between two runs.
SqInit == [seats |-> [f \in 1..NFlights |-> SqStartSeats], bookings |-> <<>>,
           snapshot |-> <<>>, steps |-> 0, last |-> ""]

\* Variant: the occupancy bands without their lower edges.
calculate_seat_factor_Strict(seats_available, ts) ==
    IF ts = 0 THEN 100
    ELSE LET occ == ts - seats_available
         IN  IF 10 * occ > 8 * ts THEN 150
             ELSE IF 10 * occ > 5 * ts THEN 120
             ELSE IF 10 * occ > 3 * ts THEN 110
             ELSE 95

\* Variant: the time bands with their upper edges included.
calculate_time_factor_Inclusive(departure, clock) ==
    LET hours_left == departure - clock
    IN  IF hours_left < 0 THEN 0
        ELSE IF hours_left <= 24 THEN 140
        ELSE IF hours_left <= 72 THEN 120
        ELSE IF hours_left <= 168 THEN 110
        ELSE 100

\* Variant: a flight departing at this very instant counts as departed.
calculate_time_factor_ZeroDeparted(departure, clock) ==
    LET hours_left == departure - clock
    IN  IF hours_left <= 0 THEN 0
        ELSE IF hours_left < 24 THEN 140
        ELSE IF hours_left < 72 THEN 120
        ELSE IF hours_left < 168 THEN 110
        ELSE 100

(* ------------------------------ pricing ------------------------------- *)
calculate_seat_factor(seats_available, ts) ==
    IF ts = 0 THEN 100
    ELSE LET occ == ts - seats_available     \* occupancy_rate = occ / ts
         IN  IF 10 * occ >= 8 * ts THEN 150
             ELSE IF 10 * occ >= 5 * ts THEN 120
             ELSE IF 10 * occ >= 3 * ts THEN 110
             ELSE 95

calculate_time_factor(departure, clock) ==
    LET hours_left == departure - clock
    IN  IF hours_left < 0 THEN 0
        ELSE IF hours_left < 24 THEN 140
        ELSE IF hours_left < 72 THEN 120
        ELSE IF hours_left < 168 THEN 110
        ELSE 100

demand_factor(level) ==
    CASE level = "LOW" -> 100
      [] level = "MEDIUM" -> 115
      [] level = "HIGH" -> 130

\* round(x * m / d, 2): Decimal.__round__ quantizes with ROUND_HALF_EVEN.
\* x * m / d is in hundredths; x * m itself may not fit a machine integer,
\* so the quotient is taken in two parts.
MulDivHalfEven(x, m, d) ==
    LET part == (x % d) * m
        q == (x \div d) * m + (part \div d)
        r == part % d
    IN  IF 2 * r < d THEN q
        ELSE IF 2 * r > d THEN q + 1
        ELSE IF q % 2 = 0 THEN q ELSE q + 1

\* Variant: the fare cut to 2 places instead of rounded.
FareOf_Truncated(base, seat_factor, time_factor, demand) ==
    LET x == base * (seat_factor \div 5) * (time_factor \div 10)
        m == demand \div 5
    IN  (x \div 4000) * m + (((x % 4000) * m) \div 4000)

\* dynamic_fare of calculate_dynamic_fare: base * seat * time * demand,
\* rounded to 2 places.  The factors are hundredths; 20 * 10 * 20 = 4000
\* is the denominator left after cancelling 5 * 10 * 5.
FareOf(base, seat_factor, time_factor, demand) ==
    MulDivHalfEven(base * (seat_factor \div 5) * (time_factor \div 10),
                   demand \div 5, 4000)

dynamic_fare(f, seats_available, clock, level) ==
    FareOf(base_fare(f),
           calculate_seat_factor(seats_available, total_seats(f)),
           calculate_time_factor(departure_time(f), clock),
           demand_factor(level))

\* The FareHistory row calculate_dynamic_fare appends (save_history=True).
FareHistoryRow(f, seats_available, clock, level) ==
    [flight |-> f,
     calculated_fare |-> dynamic_fare(f, seats_available, clock, level),
     seats_remaining |-> seats_available,
     demand_level |-> level,
     time_to_departure |->
        IF departure_time(f) - clock > 0 THEN departure_time(f) - clock ELSE 0]


(* ------------------------------ queries ------------------------------- *)
BookingIds == 1..Len(bookings)

\* Booking.objects.filter(flight=, seat_number=, booking_status='CONFIRMED')
SeatHolders(f, seat) ==
    {b \in BookingIds : /\ bookings[b].flight = f
                        /\ bookings[b].seat_number = seat
                        /\ bookings[b].booking_status = "CONFIRMED"}

\* Booking.objects.filter(pnr=)
WithPnr(code) == {b \in BookingIds : bookings[b].pnr = code}

\* Variant: cancel_booking's query without booking_status='CONFIRMED'.
ConfirmedWithPnr_AnyStatus(code) == WithPnr(code)

\* Booking.objects.filter(pnr=, booking_status='CONFIRMED')
ConfirmedWithPnr(code) ==
    {b \in WithPnr(code) : bookings[b].booking_status = "CONFIRMED"}

Confirmed(f) ==
    {b \in BookingIds : /\ bookings[b].flight = f
                        /\ bookings[b].booking_status = "CONFIRMED"}

(* ------------------------------- locks -------------------------------- *)
CreateHolding == {"c_validate", "c_price", "c_pay", "c_paysim", "c_pnr",
                  "c_insert", "c_commit"}
CancelHolding == {"x_check", "x_update", "x_commit"}

\* Variant: the flight row is read without select_for_update, so nobody
\* ever holds its lock.
FlightLockHolders_NoLock(f) == {}

\* Processes holding flight f's row lock: a create_booking from its
\* select_for_update to the end of its transaction, a cancel_booking from its
\* UPDATE of the row to the end of its transaction.
FlightLockHolders(f) ==
    {p \in Procs : \/ pc[p] \in CreateHolding /\ tx[p].flight_id = f
                   \/ pc[p] = "x_commit" /\ tx[p].flight_id = f}

\* Variant: the booking's row lock outlives the transaction that took it.
BookingLockHolders_HeldAfterReturn(b) ==
    {p \in Procs : pc[p] \in CancelHolding \cup {"done"} /\ tx[p].booking = b}

\* Processes holding booking b's row lock (select_for_update in
\* cancel_booking).
BookingLockHolders(b) ==
    {p \in Procs : pc[p] \in CancelHolding /\ tx[p].booking = b}

\* Processes whose INSERT of a booking with this PNR is not yet committed.
PendingPnr(code) ==
    {p \in Procs : pc[p] = "c_commit" /\ tx[p].pnr = code}

(* ----------------------------- validation ----------------------------- *)
is_available(f, seats_available, clock) ==
    /\ status(f) = "SCHEDULED"
    /\ seats_available > 0
    /\ departure_time(f) > clock

\* Variant: create_booking without the seat-already-booked query.
ValidationFailure_NoSeatCheck(f, seats_available, seat, clock) ==
    IF ~is_available(f, seats_available, clock) THEN "FlightNotAvailable"
    ELSE IF seats_available <= 0 THEN "NoSeatsAvailable"
    ELSE ""

\* The first validation of create_booking that fails, "" when none does.
ValidationFailure(f, seats_available, seat, clock) ==
    IF ~is_available(f, seats_available, clock) THEN "FlightNotAvailable"
    ELSE IF seats_available <= 0 THEN "NoSeatsAvailable"
    ELSE IF SeatHolders(f, seat) # {} THEN "SeatAlreadyBooked"
    ELSE ""

\* Variant: Flight.save() without full_clean().
FlightClean_Skipped(f, seats_available) == TRUE

\* Flight.full_clean() as run by Flight.save(): MinValueValidator(0) on
\* seats_available and clean()'s seats_available > total_seats.
FlightClean(f, seats_available) ==
    /\ seats_available >= 0
    /\ seats_available <= total_seats(f)

\* Booking.can_be_cancelled, for a CONFIRMED booking on flight f.
can_be_cancelled(f, clock) ==
    departure_time(f) - clock > CancelCutoffHours

(* ------------------------------ actions ------------------------------- *)
Init ==
    /\ now = 0
    /\ notNullFk \in BOOLEAN
    /\ flights = [f \in Flights |-> [seats_available |-> total_seats(f),
                                     status |-> "SCHEDULED"]]
    /\ bookings = <<>>
    /\ transactions = EmptyBag
    /\ history = EmptyBag
    /\ fare_history = EmptyBag
    /\ pc = [p \in Procs |-> "idle"]
    /\ tx = [p \in Procs |-> NoTx]
    /\ result = [p \in Procs |-> "none"]
    /\ caller = [p \in Procs |-> NoTrip]
    /\ pricing = NoPricing
    /\ sq = SqInit

Tick ==
    /\ now < MaxNow
    /\ now' = now + 1
    /\ UNCHANGED <<notNullFk, pricing, sq, db, pc, tx, result, caller>>

\* The call ends by raising err: its transaction is rolled back.  What is
\* kept of tx is the caller's arguments and the status of the in-memory
\* payment_transaction object.
RaiseWith(p, err, newtx) ==
    /\ pc' = [pc EXCEPT ![p] = "done"]
    /\ tx' = [tx EXCEPT ![p] = [newtx EXCEPT !.seats = 0, !.final_fare = 0,
                                             !.quote = EmptyBag]]
    /\ result' = [result EXCEPT ![p] = err]
    /\ UNCHANGED db

Raise(p, err) == RaiseWith(p, err, tx[p])

\* The call ends by returning: its transaction has been committed.
Return(p, value) ==
    /\ pc' = [pc EXCEPT ![p] = "done"]
    /\ tx' = [tx EXCEPT ![p] = [@ EXCEPT !.seats = 0, !.final_fare = 0,
                                         !.quote = EmptyBag, !.payment = ""]]
    /\ result' = [result EXCEPT ![p] = value]

Goto(p, label, newtx) ==
    /\ pc' = [pc EXCEPT ![p] = label]
    /\ tx' = [tx EXCEPT ![p] = newtx]
    /\ UNCHANGED <<result, db>>

\* The caller has the call's outcome; the process serves the next request.
Finish(p) ==
    /\ pc[p] = "done"
    /\ pc' = [pc EXCEPT ![p] = "idle"]
    /\ tx' = [tx EXCEPT ![p] = NoTx]
    /\ result' = [result EXCEPT ![p] = "none"]
    /\ UNCHANGED <<now, notNullFk, pricing, sq, db, caller>>

\* create_booking calls that hold a flight lock.
InFlight == {q \in Procs : pc[q] \in CreateHolding}

\* create_booking, Flight.objects.select_for_update().get(id=flight_id) on
\* an id with no row: Flight.DoesNotExist.
CreateNotFound(p, fid) ==
    /\ pc[p] = "idle"
    /\ fid \notin Flights
    /\ Raise(p, "FlightNotFound")
    /\ UNCHANGED <<now, notNullFk, pricing, sq, caller>>

\* create_booking: the flight's row lock is taken and the row read.
CreateLock(p, fid, seat, cap) ==
    /\ pc[p] = "idle"
    /\ Len(bookings) + Cardinality(InFlight) < cap
    /\ fid \in Flights
    /\ FlightLockHolders(fid) = {}
    /\ Goto(p, "c_validate",
            [NoTx EXCEPT !.flight_id = fid, !.seat_number = seat,
                         !.seats = flights[fid].seats_available])
    /\ UNCHANGED <<now, notNullFk, pricing, sq, caller>>

CreateValidate(p) ==
    /\ pc[p] = "c_validate"
    /\ LET err == ValidationFailure(tx[p].flight_id, tx[p].seats,
                                    tx[p].seat_number, now)
       IN  IF err # "" THEN Raise(p, err)
           ELSE Goto(p, "c_price", tx[p])
    /\ UNCHANGED <<now, notNullFk, pricing, sq, caller>>

\* PricingEngine.calculate_dynamic_fare(flight): reads the clock again, draws
\* the demand level, appends the FareHistory row inside the transaction.
CreatePrice(p, level) ==
    /\ pc[p] = "c_price"
    /\ Goto(p, "c_pay",
            [tx[p] EXCEPT
               !.final_fare = dynamic_fare(tx[p].flight_id, tx[p].seats, now, level),
               !.quote = SetToBag({FareHistoryRow(tx[p].flight_id, tx[p].seats,
                                                  now, level)})])
    /\ UNCHANGED <<now, notNullFk, pricing, sq, caller>>

\* PaymentTransaction.objects.create(booking=None, ...): the row is inserted
\* with a NULL booking_id, which a NOT NULL column rejects (IntegrityError).
CreatePayment(p) ==
    /\ pc[p] = "c_pay"
    /\ IF notNullFk THEN Raise(p, "IntegrityError(booking_id)")
       ELSE Goto(p, "c_paysim", [tx[p] EXCEPT !.payment = "INITIATED"])
    /\ UNCHANGED <<now, notNullFk, pricing, sq, caller>>

\* Variant: the failed payment is recorded and the call goes on instead of
\* raising.
CreateSimulatePayment_NoRaise(p, success) ==
    /\ pc[p] = "c_paysim"
    /\ IF success THEN Goto(p, "c_pnr", tx[p])
       ELSE Goto(p, "c_pnr", [tx[p] EXCEPT !.payment = "FAILED"])
    /\ UNCHANGED <<now, notNullFk, pricing, sq, caller>>

\* _simulate_payment: the gateway answers; on failure the transaction row is
\* marked FAILED and the call raises, which rolls that row back too.
CreateSimulatePayment(p, success) ==
    /\ pc[p] = "c_paysim"
    /\ IF success THEN Goto(p, "c_pnr", tx[p])
       ELSE RaiseWith(p, "PaymentFailed", [tx[p] EXCEPT !.payment = "FAILED"])
    /\ UNCHANGED <<now, notNullFk, pricing, sq, caller>>

\* Booking.save(): one draw of generate_pnr() and the exists() test of the
\* loop; a code some visible booking has is drawn again.
CreateGeneratePnr(p, code) ==
    /\ pc[p] = "c_pnr"
    /\ IF WithPnr(code) # {}
       THEN Goto(p, "c_pnr", tx[p])
       ELSE Goto(p, "c_insert", [tx[p] EXCEPT !.pnr = code])
    /\ UNCHANGED <<now, notNullFk, pricing, sq, caller>>

\* Variant: Booking.pnr without its unique index.
PnrInsertRefused_NoIndex(code) == FALSE

\* The unique index on bookings.pnr: the INSERT waits for an uncommitted
\* insert of the same code and is refused when a committed row has it.
PnrInsertWaits(code) == PendingPnr(code) # {}
PnrInsertRefused(code) == WithPnr(code) # {}

\* Booking.save(): the INSERT.
CreateInsert(p) ==
    /\ pc[p] = "c_insert"
    /\ ~PnrInsertWaits(tx[p].pnr)
    /\ IF PnrInsertRefused(tx[p].pnr) THEN Raise(p, "IntegrityError(pnr)")
       ELSE Goto(p, "c_commit", tx[p])
    /\ UNCHANGED <<now, notNullFk, pricing, sq, caller>>

\* Variant: Booking.objects.create without booking_status, which leaves the
\* column at its default.
NewBooking_Pending(p) ==
    [pnr |-> tx[p].pnr, flight |-> tx[p].flight_id,
     seat_number |-> tx[p].seat_number, booking_status |-> "PENDING",
     final_fare |-> tx[p].final_fare]

\* Booking.objects.create(flight=, seat_number=, final_fare=,
\* booking_status='CONFIRMED', ...)
NewBooking(p) ==
    [pnr |-> tx[p].pnr, flight |-> tx[p].flight_id,
     seat_number |-> tx[p].seat_number, booking_status |-> "CONFIRMED",
     final_fare |-> tx[p].final_fare]

\* create_booking from the payment update to the commit: the transaction
\* row gets the booking and SUCCESS, the flight row is saved with one seat
\* less, two history rows are appended.
CreateCommit(p) ==
    /\ pc[p] = "c_commit"
    /\ LET f == tx[p].flight_id
           b == Len(bookings) + 1
       IN  IF ~FlightClean(f, tx[p].seats - 1) THEN Raise(p, "ValidationError")
           ELSE /\ bookings' = Append(bookings, NewBooking(p))
                /\ flights' = [flights EXCEPT ![f].seats_available = tx[p].seats - 1]
                /\ transactions' = transactions (+)
                      SetToBag({[booking |-> b, amount |-> tx[p].final_fare,
                                 status |-> "SUCCESS"]})
                /\ history' = history (+)
                      SetToBag({[booking |-> b, action |-> "CREATED"],
                                [booking |-> b, action |-> "PAYMENT_SUCCESS"]})
                /\ fare_history' = fare_history (+) tx[p].quote
                /\ Return(p, "Created")
    /\ UNCHANGED <<now, notNullFk, pricing, sq, caller>>

\* cancel_booking: Booking.objects.select_for_update().get(pnr=pnr,
\* booking_status='CONFIRMED') finds no row: Booking.DoesNotExist.
CancelNotFound(p, code) ==
    /\ pc[p] = "idle"
    /\ ConfirmedWithPnr(code) = {}
    /\ tx' = [tx EXCEPT ![p] = [NoTx EXCEPT !.pnr = code]]
    /\ pc' = [pc EXCEPT ![p] = "done"]
    /\ result' = [result EXCEPT ![p] = "BookingNotFound"]
    /\ UNCHANGED <<now, notNullFk, pricing, sq, db, caller>>

\* Variant: cancel_booking without the increment.
IncrementSeats_Forgotten(seats_available) == seats_available

\* flight.seats_available += 1 in cancel_booking.
IncrementSeats(seats_available) == seats_available + 1

\* cancel_booking: the booking's row lock is taken.
CancelLock(p, code) ==
    /\ pc[p] = "idle"
    /\ \E b \in ConfirmedWithPnr(code) :
          /\ BookingLockHolders(b) = {}
          /\ Goto(p, "x_check", [NoTx EXCEPT !.pnr = code, !.booking = b])
    /\ UNCHANGED <<now, notNullFk, pricing, sq, caller>>

\* booking.can_be_cancelled: loads booking.flight by a plain read, which
\* takes no lock, and compares the departure time with the clock.
CancelCheck(p) ==
    /\ pc[p] = "x_check"
    /\ LET f == bookings[tx[p].booking].flight
       IN  IF ~can_be_cancelled(f, now)
           THEN Raise(p, "CancellationWindowClosed")
           ELSE Goto(p, "x_update",
                     [tx[p] EXCEPT !.flight_id = f,
                                   !.seats = flights[f].seats_available])
    /\ UNCHANGED <<now, notNullFk, pricing, sq, caller>>

\* booking.save(); flight.seats_available += 1; flight.save(): full_clean
\* on the loaded row, then the UPDATE, which waits for the row's lock.
CancelUpdate(p) ==
    /\ pc[p] = "x_update"
    /\ IF ~FlightClean(tx[p].flight_id, IncrementSeats(tx[p].seats))
       THEN Raise(p, "ValidationError")
       ELSE /\ FlightLockHolders(tx[p].flight_id) = {}
            /\ Goto(p, "x_commit", tx[p])
    /\ UNCHANGED <<now, notNullFk, pricing, sq, caller>>

\* Variant: the status written by cancel_booking is PENDING.
CancelledBooking_Pending(booking) ==
    [booking EXCEPT !.booking_status = "PENDING"]

\* booking.booking_status = 'CANCELLED'; booking.save()
CancelledBooking(booking) ==
    [booking EXCEPT !.booking_status = "CANCELLED"]

\* cancel_booking from the refund transaction to the commit.
CancelCommit(p) ==
    /\ pc[p] = "x_commit"
    /\ LET f == tx[p].flight_id
           b == tx[p].booking
       IN  /\ bookings' = [bookings EXCEPT ![b] = CancelledBooking(@)]
           /\ flights' = [flights EXCEPT ![f].seats_available =
                                          IncrementSeats(tx[p].seats)]
           /\ transactions' = transactions (+)
                 SetToBag({[booking |-> b, amount |-> 0 - bookings[b].final_fare,
                            status |-> "SUCCESS"]})
           /\ history' = history (+)
                 SetToBag({[booking |-> b, action |-> "CANCELLED"]})
           /\ UNCHANGED fare_history
           /\ Return(p, "Cancelled")
    /\ UNCHANGED <<now, notNullFk, pricing, sq, caller>>

\* The callers' arguments and the random sources are drawn from sets: flight
\* ids, seats, the codes generate_pnr() draws, the codes callers ask to
\* cancel, demand levels, gateway answers.
Next ==
    \/ Tick
    \/ \E p \in Procs :
        \/ \E fid \in FlightIds : CreateNotFound(p, fid)
        \/ \E fid \in FlightIds, seat \in Seats : CreateLock(p, fid, seat, MaxBookings)
        \/ CreateValidate(p)
        \/ \E level \in DemandLevels : CreatePrice(p, level)
        \/ CreatePayment(p)
        \/ \E success \in BOOLEAN : CreateSimulatePayment(p, success)
        \/ \E code \in Codes : CreateGeneratePnr(p, code)
        \/ CreateInsert(p)
        \/ CreateCommit(p)
        \/ \E code \in Codes : CancelNotFound(p, code)
        \/ \E code \in Codes : CancelLock(p, code)
        \/ CancelCheck(p)
        \/ CancelUpdate(p)
        \/ CancelCommit(p)
        \/ Finish(p)

Spec == Init /\ [][Next]_vars

(* Bookings and cancellations racing on one flight of two seats, at one     *)
(* instant, every payment accepted, on a schema that accepts the NULL      *)
(* booking_id; generate_pnr() draws the codes in a fixed order.            *)
RaceFlight == NFlights
RaceSeats == {"1A", "1B", "1C"}
RaceCodes == <<"AA0001", "AA0002", "AA0003", "AA0004", "AA0005">>
RaceDraw == {RaceCodes[Len(bookings) + 1]}
RaceRequested == {RaceCodes[i] : i \in 1..Len(RaceCodes)}

RaceInit == Init /\ ~notNullFk

RaceNext ==
    \E p \in Procs :
        \/ \E fid \in {RaceFlight, NFlights + 1} : CreateNotFound(p, fid)
        \/ \E seat \in RaceSeats : CreateLock(p, RaceFlight, seat, RaceMaxBookings)
        \/ CreateValidate(p)
        \/ CreatePrice(p, "LOW")
        \/ CreatePayment(p)
        \/ CreateSimulatePayment(p, TRUE)
        \/ \E code \in RaceDraw : CreateGeneratePnr(p, code)
        \/ CreateInsert(p)
        \/ CreateCommit(p)
        \/ \E code \in RaceRequested : CancelNotFound(p, code)
        \/ \E code \in RaceRequested : CancelLock(p, code)
        \/ CancelCheck(p)
        \/ CancelUpdate(p)
        \/ CancelCommit(p)
        \/ Finish(p)

SpecRace == RaceInit /\ [][RaceNext]_vars

(* Every process calls create_booking once, each for a seat of its own, on  *)
(* the flight with the fewest seats, which has fewer seats than there are  *)
(* processes; every payment is accepted.                                   *)
ContendedFlight == CHOOSE f \in Flights : total_seats(f) = FirstTotalSeats
ContendedSeats == <<"1A", "1B", "1C", "1D">>

ContendNext ==
    \/ Tick
    \/ \E p \in Procs :
        \/ CreateLock(p, ContendedFlight, ContendedSeats[p], NProcs)
        \/ CreateValidate(p)
        \/ \E level \in DemandLevels : CreatePrice(p, level)
        \/ CreatePayment(p)
        \/ CreateSimulatePayment(p, TRUE)
        \/ \E code \in Codes : CreateGeneratePnr(p, code)
        \/ CreateInsert(p)
        \/ CreateCommit(p)

SpecContend == Init /\ [][ContendNext]_vars

(* Callers that book a seat and then cancel the booking they were given,   *)
(* each on a flight no other process works on, between bookings they keep. *)
TripFlight(p) == ((p - 1) % NFlights) + 1

\* The caller reads the flight's seats_available before it books.
RoundTripBegin(p) ==
    /\ pc[p] = "idle"
    /\ caller[p].stage = ""
    /\ caller' = [caller EXCEPT ![p] =
                     [stage |-> "book", pnr |-> "",
                      before |-> flights[TripFlight(p)].seats_available]]
    /\ UNCHANGED <<now, notNullFk, pricing, sq, db, pc, tx, result>>

\* create_booking has returned or raised to that caller, which keeps the
\* booking's PNR.
RoundTripBooked(p) ==
    /\ pc[p] = "done"
    /\ caller[p].stage = "book"
    /\ caller' = [caller EXCEPT ![p] =
                     IF result[p] = "Created"
                     THEN [@ EXCEPT !.stage = "cancel", !.pnr = tx[p].pnr]
                     ELSE NoTrip]
    /\ pc' = [pc EXCEPT ![p] = "idle"]
    /\ tx' = [tx EXCEPT ![p] = NoTx]
    /\ result' = [result EXCEPT ![p] = "none"]
    /\ UNCHANGED <<now, notNullFk, pricing, sq, db>>

\* cancel_booking has returned or raised to that caller.
RoundTripEnd(p) ==
    /\ pc[p] = "done"
    /\ caller[p].stage = "cancel"
    /\ caller' = [caller EXCEPT ![p] = NoTrip]
    /\ pc' = [pc EXCEPT ![p] = "idle"]
    /\ tx' = [tx EXCEPT ![p] = NoTx]
    /\ result' = [result EXCEPT ![p] = "none"]
    /\ UNCHANGED <<now, notNullFk, pricing, sq, db>>

RoundTripNext ==
    \/ Tick
    \/ \E p \in Procs :
        \/ RoundTripBegin(p)
        \/ \E seat \in Seats :
              /\ caller[p].stage # "cancel"
              /\ CreateLock(p, TripFlight(p), seat, MaxBookings)
        \/ CreateValidate(p)
        \/ \E level \in DemandLevels : CreatePrice(p, level)
        \/ CreatePayment(p)
        \/ \E success \in BOOLEAN : CreateSimulatePayment(p, success)
        \/ \E code \in Codes : CreateGeneratePnr(p, code)
        \/ CreateInsert(p)
        \/ CreateCommit(p)
        \/ RoundTripBooked(p)
        \/ caller[p].stage = "cancel" /\ CancelLock(p, caller[p].pnr)
        \/ CancelCheck(p)
        \/ CancelUpdate(p)
        \/ CancelCommit(p)
        \/ RoundTripEnd(p)
        \/ caller[p].stage = "" /\ Finish(p)

SpecRoundTrip == Init /\ [][RoundTripNext]_vars

(* The rest of the service: the pricing call on its own, the details       *)
(* lookup, and BookingHistory appends that fail; explored at one instant,  *)
(* on one flight for bookings, every payment accepted.                     *)

\* PricingEngine.calculate_dynamic_fare(flight) up to pricing_details: the
\* flight row as the caller loaded it, the clock and a demand draw.
PriceCompute(p, fid, level) ==
    /\ pc[p] = "idle"
    /\ fid \in Flights
    /\ BagCardinality(fare_history) < MaxFareRows
    /\ LET seats == flights[fid].seats_available
       IN  Goto(p, "p_save",
                [NoTx EXCEPT !.flight_id = fid, !.seats = seats,
                     !.final_fare = dynamic_fare(fid, seats, now, level),
                     !.quote = SetToBag({FareHistoryRow(fid, seats, now, level)})])
    /\ UNCHANGED <<now, notNullFk, pricing, sq, caller>>

\* Variant: a failed FareHistory append is raised to the caller.
PriceSave_Raises(p, saved) ==
    /\ pc[p] = "p_save"
    /\ IF saved
       THEN /\ fare_history' = fare_history (+) tx[p].quote
            /\ pc' = [pc EXCEPT ![p] = "done"]
            /\ result' = [result EXCEPT ![p] = "Priced"]
            /\ UNCHANGED <<flights, bookings, transactions, history, tx>>
       ELSE Raise(p, "FareHistoryError")
    /\ UNCHANGED <<now, notNullFk, pricing, sq, caller>>

\* calculate_dynamic_fare from FareHistory.objects.create to the return: the
\* append succeeds or raises, the except clause prints, pricing_details is
\* returned.
PriceSave(p, saved) ==
    /\ pc[p] = "p_save"
    /\ fare_history' = IF saved THEN fare_history (+) tx[p].quote
                       ELSE fare_history
    /\ pc' = [pc EXCEPT ![p] = "done"]
    /\ result' = [result EXCEPT ![p] = "Priced"]
    /\ UNCHANGED <<flights, bookings, transactions, history, tx>>
    /\ UNCHANGED <<now, notNullFk, pricing, sq, caller>>

\* get_booking_details: the booking of any status is read with its flight,
\* the flight is priced with save_history left at its default, history and
\* transactions are read.
GetBookingDetails(p, code, level, saved) ==
    /\ pc[p] = "idle"
    /\ pc' = [pc EXCEPT ![p] = "done"]
    /\ IF WithPnr(code) = {}
       THEN /\ tx' = [tx EXCEPT ![p] = [NoTx EXCEPT !.pnr = code]]
            /\ result' = [result EXCEPT ![p] = "DetailsNotFound"]
            /\ UNCHANGED db
       ELSE \E b \in WithPnr(code) :
              LET f == bookings[b].flight
                  seats == flights[f].seats_available
              IN  /\ BagCardinality(fare_history) < MaxFareRows
                  /\ tx' = [tx EXCEPT ![p] =
                              [NoTx EXCEPT !.pnr = code, !.booking = b,
                                   !.flight_id = f,
                                   !.final_fare = dynamic_fare(f, seats, now, level)]]
                  /\ result' = [result EXCEPT ![p] = "Details"]
                  /\ fare_history' =
                        IF saved
                        THEN fare_history (+)
                               SetToBag({FareHistoryRow(f, seats, now, level)})
                        ELSE fare_history
                  /\ UNCHANGED <<flights, bookings, transactions, history>>
    /\ UNCHANGED <<now, notNullFk, pricing, sq, caller>>

\* create_booking: BookingHistory.objects.create raises; the except clause
\* re-raises and the transaction is rolled back.
CreateHistoryFails(p) ==
    /\ pc[p] = "c_commit"
    /\ Raise(p, "BookingHistoryError")
    /\ UNCHANGED <<now, notNullFk, pricing, sq, caller>>

\* cancel_booking: BookingHistory.objects.create raises, likewise.
CancelHistoryFails(p) ==
    /\ pc[p] = "x_commit"
    /\ Raise(p, "BookingHistoryError")
    /\ UNCHANGED <<now, notNullFk, pricing, sq, caller>>

\* Variant: the booked seats read without booking_status='CONFIRMED'.
booked_seats_AnyStatus(f) ==
    {bookings[b].seat_number : b \in {c \in BookingIds : bookings[c].flight = f}}

\* Booking.objects.filter(flight=, booking_status='CONFIRMED')
\*     .values_list('seat_number', flat=True)
booked_seats(f) == {bookings[b].seat_number : b \in Confirmed(f)}

BusinessLetters == <<"A", "B", "C", "D">>
EconomyLetters == <<"A", "B", "C", "D", "E", "F">>

\* The entries the two nested loops append for rows first..last.
SeatRows(first, last, letters, type, booked) ==
    [i \in 1..((last - first + 1) * Len(letters)) |->
        LET row == first + ((i - 1) \div Len(letters))
            seat_number == ToString(row) \o letters[((i - 1) % Len(letters)) + 1]
        IN  [number |-> seat_number,
             available |-> seat_number \notin booked,
             type |-> type]]

\* generate_seat_map(flight, booked_seats): given is <<>> for the default
\* None and <<seats>> for a list the caller passes.
generate_seat_map(f, given) ==
    LET booked == IF given = <<>> THEN booked_seats(f) ELSE given[1]
    IN  [booked_seats |-> given,
         business |-> SeatRows(1, BusinessRows, BusinessLetters, "business", booked),
         economy |-> SeatRows(BusinessRows + 1, LastRow, EconomyLetters,
                              "economy", booked)]

\* A call of generate_seat_map: one query and no write.
GenerateSeatMap(p, fid, given) ==
    /\ pc[p] = "idle"
    /\ fid \in Flights
    /\ pc' = [pc EXCEPT ![p] = "done"]
    /\ tx' = [tx EXCEPT ![p] = [NoTx EXCEPT !.flight_id = fid,
                                   !.seat_map = generate_seat_map(fid, given)]]
    /\ result' = [result EXCEPT ![p] = "SeatMap"]
    /\ UNCHANGED <<now, notNullFk, pricing, sq, db, caller>>

ServiceFlight == NFlights

ServiceNext ==
    \E p \in Procs :
        \/ \E seat \in Seats : CreateLock(p, ServiceFlight, seat, ServiceMaxBookings)
        \/ CreateValidate(p)
        \/ CreatePrice(p, "LOW")
        \/ CreatePayment(p)
        \/ CreateSimulatePayment(p, TRUE)
        \/ \E code \in Codes : CreateGeneratePnr(p, code)
        \/ CreateInsert(p)
        \/ CreateCommit(p)
        \/ CreateHistoryFails(p)
        \/ \E code \in Codes : CancelLock(p, code)
        \/ CancelCheck(p)
        \/ CancelUpdate(p)
        \/ CancelCommit(p)
        \/ CancelHistoryFails(p)
        \/ \E fid \in Flights, level \in DemandLevels : PriceCompute(p, fid, level)
        \/ \E saved \in BOOLEAN : PriceSave(p, saved)
        \/ \E code \in Codes, level \in DemandLevels, saved \in BOOLEAN :
              GetBookingDetails(p, code, level, saved)
        \/ Finish(p)

SpecService == Init /\ [][ServiceNext]_vars

(* Bookings asked for on flights of any status, while the clock runs past  *)
(* the departure time; every payment accepted.                             *)
LateInit ==
    /\ now = 0
    /\ notNullFk \in BOOLEAN
    /\ \E st \in [Flights -> StatusChoices] :
          flights = [f \in Flights |-> [seats_available |-> total_seats(f),
                                        status |-> st[f]]]
    /\ bookings = <<>>
    /\ transactions = EmptyBag
    /\ history = EmptyBag
    /\ fare_history = EmptyBag
    /\ pc = [p \in Procs |-> "idle"]
    /\ tx = [p \in Procs |-> NoTx]
    /\ result = [p \in Procs |-> "none"]
    /\ caller = [p \in Procs |-> NoTrip]
    /\ pricing = NoPricing
    /\ sq = SqInit

LateTick ==
    /\ now < LateNow
    /\ now' = now + 1
    /\ UNCHANGED <<notNullFk, pricing, sq, db, pc, tx, result, caller>>

LateNext ==
    \/ LateTick
    \/ \E p \in Procs :
        \/ \E fid \in Flights, seat \in Seats :
              CreateLock(p, fid, seat, LateMaxBookings)
        \/ CreateValidate(p)
        \/ CreatePrice(p, "LOW")
        \/ CreatePayment(p)
        \/ CreateSimulatePayment(p, TRUE)
        \/ \E code \in Codes : CreateGeneratePnr(p, code)
        \/ CreateInsert(p)
        \/ CreateCommit(p)
        \/ Finish(p)

SpecLate == LateInit /\ [][LateNext]_vars

(* Bookings until every code generate_pnr() can draw is taken and one more  *)
(* is asked for; every payment accepted.  A call that can take its next    *)
(* step takes it, and a draw that can hit a free code eventually does.     *)
ExhaustNext ==
    \E p \in Procs :
        \/ \E fid \in Flights, seat \in Seats :
              CreateLock(p, fid, seat, ExhaustMaxBookings)
        \/ CreateValidate(p)
        \/ CreatePrice(p, "LOW")
        \/ CreatePayment(p)
        \/ CreateSimulatePayment(p, TRUE)
        \/ \E code \in Codes : CreateGeneratePnr(p, code)
        \/ CreateInsert(p)
        \/ CreateCommit(p)
        \/ Finish(p)

ExhaustFair ==
    \A p \in Procs :
        /\ WF_vars(\E code \in Codes : CreateGeneratePnr(p, code))
        /\ WF_vars(CreateInsert(p))
        /\ WF_vars(CreateCommit(p))

SpecExhaust == Init /\ [][ExhaustNext]_vars /\ ExhaustFair

(* Seat maps drawn while one seat of a flight is booked and cancelled, at   *)
(* one instant, every payment accepted.                                    *)
SeatMapNext ==
    \E p \in Procs :
        \/ \E seat \in Seats : CreateLock(p, ServiceFlight, seat, ServiceMaxBookings)
        \/ CreateValidate(p)
        \/ CreatePrice(p, "LOW")
        \/ CreatePayment(p)
        \/ CreateSimulatePayment(p, TRUE)
        \/ \E code \in Codes : CreateGeneratePnr(p, code)
        \/ CreateInsert(p)
        \/ CreateCommit(p)
        \/ \E code \in Codes : CancelLock(p, code)
        \/ CancelCheck(p)
        \/ CancelUpdate(p)
        \/ CancelCommit(p)
        \/ \E fid \in Flights, given \in {<<>>, <<{"1B"}>>} :
              GenerateSeatMap(p, fid, given)
        \/ Finish(p)

SpecSeatMap == Init /\ [][SeatMapNext]_vars

(* The pricing functions on their own, on arguments drawn from sets that   *)
(* hold every band edge and the documented example.                        *)
PricingTotals == (1..MaxPricingSeats) \cup {ExampleTotalSeats}
PricingHours == (0 - 2)..MaxPricingHours
PricingBases == {1, 199, HalfwayFare, OddFare, OddFare + 1, BaseFare}
PricingFareTotals == {4, ExampleTotalSeats}
PricingFareHours == {0 - 1, ExampleHours, 24, 100, 168}

SeatFactorCall(seats, total) ==
    /\ seats \in 0..total
    /\ pricing' = [NoPricing EXCEPT !.call = "calculate_seat_factor",
                       !.seats_available = seats, !.total_seats = total,
                       !.value = calculate_seat_factor(seats, total)]
    /\ UNCHANGED <<now, notNullFk, sq, db, pc, tx, result, caller>>

TimeFactorCall(hours) ==
    /\ pricing' = [NoPricing EXCEPT !.call = "calculate_time_factor",
                       !.hours_left = hours,
                       !.value = calculate_time_factor(now + hours, now)]
    /\ UNCHANGED <<now, notNullFk, sq, db, pc, tx, result, caller>>

DynamicFareCall(base, seats, total, hours, level) ==
    /\ seats \in 0..total
    /\ total = ExampleTotalSeats => seats = ExampleSeats
    /\ pricing' = [call |-> "calculate_dynamic_fare", base_fare |-> base,
                   total_seats |-> total, seats_available |-> seats,
                   hours_left |-> hours, demand_level |-> level,
                   value |-> FareOf(base,
                                    calculate_seat_factor(seats, total),
                                    calculate_time_factor(now + hours, now),
                                    demand_factor(level))]
    /\ UNCHANGED <<now, notNullFk, sq, db, pc, tx, result, caller>>

PricingNext ==
    \/ Tick
    \/ \E total \in PricingTotals, seats \in 0..ExampleTotalSeats :
          SeatFactorCall(seats, total)
    \/ \E hours \in PricingHours : TimeFactorCall(hours)
    \/ \E base \in PricingBases, total \in PricingFareTotals,
          seats \in 0..ExampleSeats, hours \in PricingFareHours,
          level \in DemandLevels :
          DynamicFareCall(base, seats, total, hours, level)

SpecPricing == Init /\ [][PricingNext]_vars

(* The SQLite engine (database.py behind app.py, and simulator.py).  Each   *)
(* of book_flight and cancel_booking runs in one transaction on flights.db, *)
(* which SQLite's database lock serializes; simulate_demand_change reads    *)
(* outside a transaction and writes in a later one.                         *)
SqFlights == 1..NFlights

\* flights.departure_time, which no operation of database.py writes.
SqDepartureTime(f) == DepartureHour

\* The last seats_available that simulate_demand_change can write for a
\* flight of whose row it read seats, having drawn change.
SimulatedSeats(seats, change) ==
    LET capped == IF seats + change < SqSeatCap THEN seats + change
                  ELSE SqSeatCap
    IN  IF capped > 0 THEN capped ELSE 0

SqConfirmed(code) ==
    {b \in 1..Len(sq.bookings) :
        /\ sq.bookings[b].pnr = code
        /\ sq.bookings[b].booking_status = "CONFIRMED"}

SqFrame == UNCHANGED <<now, notNullFk, pricing, db, pc, tx, result, caller>>

\* book_flight: seats test, a fresh PNR, the payment draw, the INSERT and
\* the relative UPDATE, committed together or not at all.
SqBookFlight(fid, seat, code, paid) ==
    /\ Len(sq.bookings) < MaxSqBookings
    /\ \A b \in 1..Len(sq.bookings) : sq.bookings[b].pnr # code
    /\ IF fid \notin SqFlights \/ sq.seats[IF fid \in SqFlights THEN fid ELSE 1] <= 0
       THEN sq' = [sq EXCEPT !.last = "No seats available"]
       ELSE IF ~paid
       THEN sq' = [sq EXCEPT !.last = "Payment failed"]
       ELSE sq' = [sq EXCEPT
                     !.bookings = Append(@, [pnr |-> code, flight_id |-> fid,
                                             seat_number |-> seat,
                                             booking_status |-> "CONFIRMED"]),
                     !.seats[fid] = @ - 1,
                     !.last = "Booking successful"]
    /\ SqFrame

\* cancel_booking of database.py.
SqCancelBooking(code) ==
    /\ IF SqConfirmed(code) = {}
       THEN sq' = [sq EXCEPT !.last = "Booking not found or already cancelled"]
       ELSE \E b \in SqConfirmed(code) :
              sq' = [sq EXCEPT
                       !.bookings[b].booking_status = "CANCELLED",
                       !.seats[sq.bookings[b].flight_id] = @ + 1,
                       !.last = "Booking cancelled successfully"]
    /\ SqFrame

\* simulate_demand_change: SELECT id, seats_available FROM flights.
SqSimulateRead ==
    /\ sq.snapshot = <<>>
    /\ sq.steps < MaxSimSteps
    /\ sq' = [sq EXCEPT !.snapshot = sq.seats, !.steps = @ + 1,
                        !.last = "simulate_demand_change"]
    /\ SqFrame

\* simulate_demand_change: one absolute UPDATE per flight read, and the
\* commit.
SqSimulateWrite(change) ==
    /\ sq.snapshot # <<>>
    /\ sq' = [sq EXCEPT
                !.seats = [f \in SqFlights |->
                             SimulatedSeats(sq.snapshot[f], change[f])],
                !.snapshot = <<>>]
    /\ SqFrame

SqNext ==
    \/ Tick
    \/ \E fid \in FlightIds, seat \in Seats, code \in Codes, paid \in BOOLEAN :
          SqBookFlight(fid, seat, code, paid)
    \/ \E code \in Codes : SqCancelBooking(code)
    \/ SqSimulateRead
    \/ \E change \in [SqFlights -> {0 - 2, 0 - 1, 0, 1}] : SqSimulateWrite(change)

SpecSqlite == Init /\ [][SqNext]_vars

(* book_flight of database.py statement by statement, on connections that  *)
(* run at once.  flights.db is in SQLite's rollback-journal mode: a read    *)
(* inside a transaction takes the SHARED lock, the first write takes the    *)
(* RESERVED lock, which one connection at a time can have, and COMMIT       *)
(* needs every other connection's SHARED lock gone; a connection refused    *)
(* a lock gets "database is locked", which book_flight catches.  Every      *)
(* flight starts with SqRaceSeats seats.                                    *)
SqReading == {"s_pnr", "s_pay", "s_insert", "s_commit"}
SqWriting == {"s_commit"}

\* Variant: connections that take no lock on flights.db.
SqOtherHolders_NoLock(p, held) == {}

\* The other connections whose transaction is at a position where it holds
\* the lock in question.
SqOtherHolders(p, held) == {q \in Procs \ {p} : pc[q] \in held}

SqRaceInit ==
    /\ now = 0
    /\ notNullFk \in BOOLEAN
    /\ flights = [f \in Flights |-> [seats_available |-> total_seats(f),
                                     status |-> "SCHEDULED"]]
    /\ bookings = <<>>
    /\ transactions = EmptyBag
    /\ history = EmptyBag
    /\ fare_history = EmptyBag
    /\ pc = [p \in Procs |-> "idle"]
    /\ tx = [p \in Procs |-> NoTx]
    /\ result = [p \in Procs |-> "none"]
    /\ caller = [p \in Procs |-> NoTrip]
    /\ pricing = NoPricing
    /\ sq = [SqInit EXCEPT !.seats = [f \in SqFlights |-> SqRaceSeats]]

SqProcFrame == UNCHANGED <<now, notNullFk, pricing, db, caller>>

\* except Exception: ROLLBACK, return (None, "Booking failed: ...").
SqFail(p, message) ==
    /\ pc' = [pc EXCEPT ![p] = "done"]
    /\ result' = [result EXCEPT ![p] = message]
    /\ UNCHANGED <<tx, sq>>

\* BEGIN TRANSACTION; SELECT seats_available FROM flights WHERE id = ?
SqSelectSeats(p, fid, seat) ==
    /\ pc[p] = "idle"
    /\ LET seats == IF fid \in SqFlights THEN sq.seats[fid] ELSE 0
       IN  /\ pc' = [pc EXCEPT ![p] = IF seats <= 0 THEN "done" ELSE "s_pnr"]
           /\ tx' = [tx EXCEPT ![p] = [NoTx EXCEPT !.flight_id = fid,
                                                   !.seat_number = seat,
                                                   !.seats = seats]]
           /\ result' = [result EXCEPT ![p] =
                           IF seats <= 0 THEN "No seats available"
                           ELSE "none"]
    /\ UNCHANGED sq
    /\ SqProcFrame

\* generate_pnr() and SELECT id FROM bookings WHERE pnr = ?, until the code
\* drawn is on no committed row.
SqDrawPnr(p, code) ==
    /\ pc[p] = "s_pnr"
    /\ \A b \in 1..Len(sq.bookings) : sq.bookings[b].pnr # code
    /\ pc' = [pc EXCEPT ![p] = "s_pay"]
    /\ tx' = [tx EXCEPT ![p].pnr = code]
    /\ UNCHANGED <<result, sq>>
    /\ SqProcFrame

\* payment_success = random.random() < 0.9
SqPay(p, paid) ==
    /\ pc[p] = "s_pay"
    /\ IF paid
       THEN /\ pc' = [pc EXCEPT ![p] = "s_insert"]
            /\ UNCHANGED <<tx, result, sq>>
       ELSE SqFail(p, "Payment failed")
    /\ SqProcFrame

\* INSERT INTO bookings and UPDATE flights: the first write asks for the
\* RESERVED lock; the rows stay in the connection until COMMIT.
SqInsert(p) ==
    /\ pc[p] = "s_insert"
    /\ IF SqOtherHolders(p, SqWriting) # {}
       THEN SqFail(p, "Booking failed: database is locked")
       ELSE /\ pc' = [pc EXCEPT ![p] = "s_commit"]
            /\ UNCHANGED <<tx, result, sq>>
    /\ SqProcFrame

\* COMMIT, once the other connections' SHARED locks are gone: the new
\* booking row and seats_available - 1 reach flights.db.
SqCommit(p) ==
    /\ pc[p] = "s_commit"
    /\ SqOtherHolders(p, SqReading) = {}
    /\ sq' = [sq EXCEPT
                !.bookings = Append(@, [pnr |-> tx[p].pnr,
                                        flight_id |-> tx[p].flight_id,
                                        seat_number |-> tx[p].seat_number,
                                        booking_status |-> "CONFIRMED"]),
                !.seats[tx[p].flight_id] = @ - 1]
    /\ pc' = [pc EXCEPT ![p] = "done"]
    /\ result' = [result EXCEPT ![p] = "Booking successful"]
    /\ UNCHANGED tx
    /\ SqProcFrame

\* COMMIT gives up waiting for the other connections' SHARED locks (the
\* connection's timeout): "database is locked", and book_flight rolls back.
SqCommitTimeout(p) ==
    /\ pc[p] = "s_commit"
    /\ SqOtherHolders(p, SqReading) # {}
    /\ SqFail(p, "Booking failed: database is locked")
    /\ SqProcFrame

SqRaceNext ==
    \E p \in Procs :
        \/ \E fid \in FlightIds, seat \in Seats : SqSelectSeats(p, fid, seat)
        \/ \E code \in Codes : SqDrawPnr(p, code)
        \/ \E paid \in BOOLEAN : SqPay(p, paid)
        \/ SqInsert(p)
        \/ SqCommit(p)
        \/ SqCommitTimeout(p)
        \/ Finish(p)

SpecSqRace == SqRaceInit /\ [][SqRaceNext]_vars

(* pricing.py, the fare functions of app.py.  Factors are in hundredths;   *)
(* hours_left is departure_time minus the clock read inside the call, in   *)
(* whole hours; base fares are whole amounts, so that the product has two  *)
(* decimals and round(final_price, 2) keeps it: prices are in hundredths.  *)
SqDemandLevels == {"low", "medium", "high"}
SqPricingTotals == 1..MaxSqPricingSeats
SqPricingHours == {23, 24, 72, 168}
SqPricingBases == {BaseFare}

calculate_dynamic_price(fare, seats_available, ts, hours_left, demand_level) ==
    LET occupied == ts - seats_available         \* occupancy = occupied / ts
        seat_factor == IF 10 * occupied > 8 * ts THEN 50
                       ELSE IF 10 * occupied > 5 * ts THEN 20
                       ELSE 0
        time_factor == IF hours_left < 24 THEN 40
                       ELSE IF hours_left < 72 THEN 20
                       ELSE IF hours_left < 168 THEN 10
                       ELSE 0
        demand == IF demand_level = "high" THEN 30
                  ELSE IF demand_level = "medium" THEN 15
                  ELSE 0
    IN  [seat_factor |-> seat_factor, time_factor |-> time_factor,
         demand_factor |-> demand,
         dynamic_price |-> fare * (100 + seat_factor + time_factor + demand)]

get_price_breakdown(fare, seats_available, ts, hours_left, demand_level) ==
    LET occupied == ts - seats_available
        seat_factor == IF 10 * occupied > 8 * ts THEN 50
                       ELSE IF 10 * occupied > 5 * ts THEN 20
                       ELSE 0
        time_factor == IF hours_left < 24 THEN 40
                       ELSE IF hours_left < 72 THEN 20
                       ELSE IF hours_left < 168 THEN 10
                       ELSE 0
        demand == IF demand_level = "high" THEN 30
                  ELSE IF demand_level = "medium" THEN 15
                  ELSE 0
    IN  [base_fare |-> fare,
         dynamic_price |-> fare * (100 + seat_factor + time_factor + demand),
         seat_factor |-> seat_factor, time_factor |-> time_factor,
         demand_factor |-> demand, demand_level |-> demand_level,
         occupied |-> occupied]

\* A call of calculate_dynamic_price; value holds the factors it chose and
\* the price it returns.
SqDynamicPriceCall(base, seats, total, hours, level) ==
    /\ seats \in 0..total
    /\ pricing' = [call |-> "calculate_dynamic_price", base_fare |-> base,
                   total_seats |-> total, seats_available |-> seats,
                   hours_left |-> hours, demand_level |-> level,
                   value |-> calculate_dynamic_price(base, seats, total,
                                                     hours, level)]
    /\ UNCHANGED <<now, notNullFk, sq, db, pc, tx, result, caller>>

SqPriceBreakdownCall(base, seats, total, hours, level) ==
    /\ seats \in 0..total
    /\ pricing' = [call |-> "get_price_breakdown", base_fare |-> base,
                   total_seats |-> total, seats_available |-> seats,
                   hours_left |-> hours, demand_level |-> level,
                   value |-> get_price_breakdown(base, seats, total,
                                                 hours, level)]
    /\ UNCHANGED <<now, notNullFk, sq, db, pc, tx, result, caller>>

SqPricingNext ==
    \E base \in SqPricingBases, total \in SqPricingTotals,
       seats \in 0..MaxSqPricingSeats, hours \in SqPricingHours,
       level \in SqDemandLevels :
        \/ SqDynamicPriceCall(base, seats, total, hours, level)
        \/ SqPriceBreakdownCall(base, seats, total, hours, level)

SpecSqPricing == Init /\ [][SqPricingNext]_vars

(* create_booking and cancel_booking with the waits for row locks as       *)
(* positions of the call: a call that has asked for a locked row stays at  *)
(* its select_for_update until the row is free.  The row lock is fair (a   *)
(* waiter that can get the lock again and again does get it), a call that  *)
(* can take its next step takes it, and a draw that can hit a free code    *)
(* eventually does.  The clock stands still.                               *)
LiveWaiting == {q \in Procs : pc[q] = "c_wait"}

\* create_booking is called: transaction.atomic() is entered and the
\* select_for_update of the flight row is sent.
LiveCreateCall(p, fid, seat) ==
    /\ pc[p] = "idle"
    /\ Len(bookings) + Cardinality(InFlight \cup LiveWaiting) < LiveMaxBookings
    \* unused codes remain for every call that draws one
    /\ Len(bookings) + Cardinality(InFlight \cup LiveWaiting) < Cardinality(Codes)
    /\ fid \in Flights
    /\ Goto(p, "c_wait", [NoTx EXCEPT !.flight_id = fid, !.seat_number = seat])
    /\ UNCHANGED <<now, notNullFk, pricing, sq, caller>>

\* The flight's row lock is granted and the row read.
LiveCreateLock(p) ==
    /\ pc[p] = "c_wait"
    /\ FlightLockHolders(tx[p].flight_id) = {}
    /\ Goto(p, "c_validate",
            [tx[p] EXCEPT !.seats = flights[tx[p].flight_id].seats_available])
    /\ UNCHANGED <<now, notNullFk, pricing, sq, caller>>

\* cancel_booking is called: the select_for_update of the CONFIRMED booking
\* with the PNR is sent.
LiveCancelCall(p, code) ==
    /\ pc[p] = "idle"
    /\ Goto(p, "x_wait", [NoTx EXCEPT !.pnr = code])
    /\ UNCHANGED <<now, notNullFk, pricing, sq, caller>>

\* The query finds no CONFIRMED row, at once or when the lock it waited for
\* is released by the transaction that cancelled the booking:
\* Booking.DoesNotExist.
LiveCancelNotFound(p) ==
    /\ pc[p] = "x_wait"
    /\ ConfirmedWithPnr(tx[p].pnr) = {}
    /\ pc' = [pc EXCEPT ![p] = "done"]
    /\ result' = [result EXCEPT ![p] = "BookingNotFound"]
    /\ UNCHANGED <<tx, now, notNullFk, pricing, sq, db, caller>>

\* The booking's row lock is granted.
LiveCancelLock(p) ==
    /\ pc[p] = "x_wait"
    /\ \E b \in ConfirmedWithPnr(tx[p].pnr) :
          /\ BookingLockHolders(b) = {}
          /\ Goto(p, "x_check", [tx[p] EXCEPT !.booking = b])
    /\ UNCHANGED <<now, notNullFk, pricing, sq, caller>>

\* The steps of a call that has begun.
LiveStep(p) ==
    \/ LiveCreateLock(p)
    \/ CreateValidate(p)
    \/ CreatePrice(p, "LOW")
    \/ CreatePayment(p)
    \/ \E success \in BOOLEAN : CreateSimulatePayment(p, success)
    \/ \E code \in Codes : CreateGeneratePnr(p, code)
    \/ CreateInsert(p)
    \/ CreateCommit(p)
    \/ LiveCancelNotFound(p)
    \/ LiveCancelLock(p)
    \/ CancelCheck(p)
    \/ CancelUpdate(p)
    \/ CancelCommit(p)

LiveNext ==
    \E p \in Procs :
        \/ \E fid \in FlightIds : CreateNotFound(p, fid)
        \/ \E fid \in FlightIds, seat \in Seats : LiveCreateCall(p, fid, seat)
        \/ \E code \in Codes : LiveCancelCall(p, code)
        \/ LiveStep(p)
        \/ Finish(p)

\* A call in progress has one next step; where that step waits for a row
\* lock or for an uncommitted insert of its PNR, strong fairness is the
\* fair lock.
LiveFair == \A p \in Procs : SF_vars(LiveStep(p))

SpecLive == Init /\ [][LiveNext]_vars /\ LiveFair

(* Bookings of seat numbers as callers pass them, inside the layout of     *)
(* generate_seat_map and outside it (a letter the row's class has not, a   *)
(* row the layout has not), and seat maps drawn in between; every payment  *)
(* accepted.                                                               *)
RequestedSeats == {"1A", "5E", "31A"}

LayoutNext ==
    \E p \in Procs :
        \/ \E seat \in RequestedSeats :
              CreateLock(p, ServiceFlight, seat, LayoutMaxBookings)
        \/ CreateValidate(p)
        \/ CreatePrice(p, "LOW")
        \/ CreatePayment(p)
        \/ CreateSimulatePayment(p, TRUE)
        \/ \E code \in Codes : CreateGeneratePnr(p, code)
        \/ CreateInsert(p)
        \/ CreateCommit(p)
        \/ \E fid \in Flights : GenerateSeatMap(p, fid, <<>>)
        \/ Finish(p)

SpecLayout == Init /\ [][LayoutNext]_vars

(* ------------------------------ claims -------------------------------- *)

\* C1: on every flight the number of CONFIRMED bookings never exceeds the
\* flight's total_seats.
C1_NoOversell ==
    \A f \in Flights : Cardinality(Confirmed(f)) <= total_seats(f)


\* C2: in every committed state seats_available plus the number of CONFIRMED
\* bookings of a flight equals its total_seats (no inventory update is
\* lost).
C2_InventoryMatchesBookings ==
    \A f \in Flights :
        flights[f].seats_available + Cardinality(Confirmed(f)) = total_seats(f)

\* C3: when every process has made its one create_booking call, each for a
\* different seat of a flight with K seats left, K smaller than the number
\* of calls, and every payment is accepted, exactly K calls have succeeded.
C3_ExactlyKSucceed ==
    (\A p \in Procs : pc[p] = "done")
        => /\ Cardinality({p \in Procs : result[p] = "Created"})
                = total_seats(ContendedFlight)
           /\ Cardinality(Confirmed(ContendedFlight))
                = total_seats(ContendedFlight)

\* C4: no two CONFIRMED bookings of one flight have the same seat_number.
C4_SeatUnique ==
    \A a, b \in BookingIds :
        /\ a # b
        /\ bookings[a].flight = bookings[b].flight
        /\ bookings[a].seat_number = bookings[b].seat_number
        => ~(/\ bookings[a].booking_status = "CONFIRMED"
             /\ bookings[b].booking_status = "CONFIRMED")

\* A create_booking for a seat a CONFIRMED booking holds was refused.
C4_Witness ==
    \E p \in Procs :
        /\ pc[p] = "done"
        /\ result[p] = "SeatAlreadyBooked"
        /\ SeatHolders(tx[p].flight_id, tx[p].seat_number) # {}

\* C5: a create_booking call whose simulated payment fails raises; none of
\* its steps, up to and including the failure, adds a booking, changes a
\* flight's seats_available or adds a booking-history entry.
C5_PaymentFailureLeavesNothing ==
    [][\A p \in Procs :
         /\ (tx[p].payment # "FAILED" /\ tx'[p].payment = "FAILED")
              => /\ pc'[p] = "done"
                 /\ result'[p] = "PaymentFailed"
                 /\ UNCHANGED <<flights, bookings, history>>
         /\ (\/ pc[p] = "idle" /\ pc'[p] = "c_validate"
             \/ /\ pc[p] \in {"c_validate", "c_price", "c_pay", "c_paysim"}
                /\ pc'[p] # pc[p])
              => UNCHANGED <<flights, bookings, history>>]_vars

\* A create_booking call has ended on its failed payment.
C5_Witness ==
    \E p \in Procs :
        /\ pc[p] = "done"
        /\ result[p] = "PaymentFailed"
        /\ tx[p].payment = "FAILED"

\* C6: a create_booking call that fails validation (no such flight, flight
\* not available, no seats, seat already held) raises and leaves flights,
\* bookings, payment transactions, booking history and fare history as
\* they were.
C6_ValidationFailureLeavesNothing ==
    [][\A p \in Procs :
         /\ (/\ pc[p] = "c_validate"
             /\ pc'[p] # pc[p]
             /\ \/ ~is_available(tx[p].flight_id, tx[p].seats, now)
                \/ tx[p].seats <= 0
                \/ SeatHolders(tx[p].flight_id, tx[p].seat_number) # {})
              => /\ pc'[p] = "done"
                 /\ result'[p] \in {"FlightNotAvailable", "NoSeatsAvailable",
                                     "SeatAlreadyBooked"}
                 /\ UNCHANGED db
         /\ (pc[p] = "idle" /\ result'[p] = "FlightNotFound")
              => pc'[p] = "done" /\ UNCHANGED db
         /\ (pc[p] = "idle" /\ pc'[p] = "c_validate") => UNCHANGED db]_vars

\* One call has been refused for an unknown flight and another for a held
\* seat.
C6_Witness ==
    \E p, q \in Procs :
        /\ pc[p] = "done" /\ result[p] = "FlightNotFound"
        /\ pc[q] = "done" /\ result[q] = "SeatAlreadyBooked"

\* C7: booking the last seat sets seats_available to 0, and a create_booking
\* that then finds no seat left on a flight that is otherwise bookable
\* fails with the no-seats error, not with the not-bookable error.
C7_FullFlightRaisesNoSeats ==
    [][\A p \in Procs :
         /\ (/\ pc[p] = "c_commit"
             /\ result'[p] = "Created"
             /\ flights[tx[p].flight_id].seats_available = 1)
              => flights'[tx[p].flight_id].seats_available = 0
         /\ (/\ pc[p] = "c_validate"
             /\ pc'[p] # pc[p]
             /\ tx[p].seats = 0
             /\ status(tx[p].flight_id) = "SCHEDULED"
             /\ departure_time(tx[p].flight_id) > now)
              => result'[p] = "NoSeatsAvailable"]_vars

\* C8: when a caller books a seat and then cancels that booking, with no
\* other operation on the flight in between, the flight's seats_available
\* is again what it was before the booking.
C8_CancelRestoresSeats ==
    \A p \in Procs :
        (/\ caller[p].stage = "cancel"
         /\ pc[p] = "done"
         /\ result[p] = "Cancelled")
            => flights[TripFlight(p)].seats_available = caller[p].before

\* A caller has booked and cancelled on a flight that had a seat taken
\* before.
C8_Witness ==
    \E p \in Procs :
        /\ caller[p].stage = "cancel"
        /\ pc[p] = "done"
        /\ result[p] = "Cancelled"
        /\ caller[p].before < total_seats(TripFlight(p))
        /\ \E b \in BookingIds : /\ bookings[b].pnr = caller[p].pnr
                                  /\ bookings[b].booking_status = "CANCELLED"

\* C9: all persisted bookings, CONFIRMED or CANCELLED, on any flights, have
\* pairwise distinct PNRs.
C9_PnrUnique ==
    \A a, b \in BookingIds : a # b => bookings[a].pnr # bookings[b].pnr

\* Two create_booking calls on different flights drew the same code: one has
\* inserted its booking and not committed, the other is at its INSERT.
C9_Witness ==
    \E p, q \in Procs :
        /\ pc[p] = "c_insert"
        /\ pc[q] = "c_commit"
        /\ tx[p].pnr = tx[q].pnr
        /\ tx[p].flight_id # tx[q].flight_id

\* C10: no create_booking call fails because the code it generated collides
\* with another booking's PNR.
C10_NoCallFailsOnCollision ==
    \A p \in Procs : result[p] # "IntegrityError(pnr)"

\* C11: cancel_booking of a CONFIRMED booking passes its check exactly when
\* the flight departs in more than 2 hours at that moment; when it does not
\* pass, it raises the cancellation-window error and leaves every table as
\* it was; when it passes, the call succeeds.
C11_CancelSucceedsIffOutsideCutoff ==
    [][\A p \in Procs :
         /\ (pc[p] = "x_check" /\ pc'[p] # pc[p])
              => LET f == bookings[tx[p].booking].flight
                 IN  IF departure_time(f) - now > CancelCutoffHours
                     THEN pc'[p] = "x_update"
                     ELSE /\ pc'[p] = "done"
                          /\ result'[p] = "CancellationWindowClosed"
                          /\ UNCHANGED db
         /\ (pc[p] \in {"x_update", "x_commit"} /\ pc'[p] = "done")
              => result'[p] = "Cancelled"]_vars

\* C12: cancel_booking for a PNR with no CONFIRMED booking raises the
\* not-found error and changes no table; only a CONFIRMED booking is ever
\* taken for cancellation, and a CANCELLED booking is never changed again,
\* so the calls for one PNR increment seats_available once in total.
C12_CancelAtMostOnce ==
    [][/\ \A p \in Procs :
            /\ (pc[p] = "idle" /\ result'[p] = "BookingNotFound")
                 => /\ pc'[p] = "done"
                    /\ UNCHANGED db
                    /\ \A b \in BookingIds :
                          bookings[b].pnr = tx'[p].pnr
                              => bookings[b].booking_status # "CONFIRMED"
            /\ (pc[p] = "idle" /\ pc'[p] = "x_check")
                 => /\ bookings[tx'[p].booking].pnr = tx'[p].pnr
                    /\ bookings[tx'[p].booking].booking_status = "CONFIRMED"
            /\ (pc[p] = "x_commit" /\ result'[p] = "Cancelled")
                 => /\ bookings[tx[p].booking].booking_status = "CONFIRMED"
                    /\ bookings'[tx[p].booking].booking_status = "CANCELLED"
       /\ \A b \in BookingIds :
            bookings[b].booking_status = "CANCELLED"
                => bookings'[b] = bookings[b]]_vars

\* A second cancel_booking for the PNR of a booking already cancelled has
\* been refused.
C12_Witness ==
    \E p \in Procs, b \in BookingIds :
        /\ pc[p] = "done"
        /\ result[p] = "BookingNotFound"
        /\ bookings[b].pnr = tx[p].pnr
        /\ bookings[b].booking_status = "CANCELLED"

\* C13: on every flight 0 <= seats_available <= total_seats, in every state
\* create_booking and cancel_booking calls can reach.
C13_SeatsWithinBounds ==
    \A f \in Flights :
        /\ 0 <= flights[f].seats_available
        /\ flights[f].seats_available <= total_seats(f)

\* A cancel_booking was refused by Flight.save() because its increment would
\* have exceeded total_seats.
C13_Witness ==
    \E p \in Procs :
        /\ pc[p] = "done"
        /\ result[p] = "ValidationError"
        /\ flights[tx[p].flight_id].seats_available = total_seats(tx[p].flight_id)

\* C15: get_booking_details changes nothing: flights, bookings, payment
\* transactions, booking history and fare history are after the call what
\* they were before it, whether or not the PNR exists.
C15_DetailsMutateNothing ==
    [][\A p \in Procs :
         (pc[p] = "idle" /\ result'[p] \in {"Details", "DetailsNotFound"})
             => UNCHANGED db]_vars

\* C16: a BookingHistory append that fails in create_booking or
\* cancel_booking is swallowed: the call that has reached its last writes
\* returns the booking, CONFIRMED with the seat taken, respectively
\* CANCELLED.
C16_HistoryFailureSwallowed ==
    [][\A p \in Procs :
         /\ (pc[p] = "c_commit" /\ pc'[p] = "done")
              => /\ result'[p] = "Created"
                 /\ Len(bookings') = Len(bookings) + 1
                 /\ bookings'[Len(bookings')].booking_status = "CONFIRMED"
                 /\ flights'[tx[p].flight_id].seats_available
                      = flights[tx[p].flight_id].seats_available - 1
         /\ (pc[p] = "x_commit" /\ pc'[p] = "done")
              => /\ result'[p] = "Cancelled"
                 /\ bookings'[tx[p].booking].booking_status = "CANCELLED"]_vars

\* C17: calculate_dynamic_fare with save_history on returns the pricing
\* details it computed, and raises nothing, whether the FareHistory append
\* succeeds or fails; it writes nothing but that row.
C17_FareHistoryFailureSwallowed ==
    [][\A p \in Procs :
         (pc[p] = "p_save" /\ pc'[p] # pc[p])
             => /\ pc'[p] = "done"
                /\ result'[p] = "Priced"
                /\ tx'[p] = tx[p]
                /\ \/ fare_history' = fare_history
                   \/ fare_history' = fare_history (+) tx[p].quote
                /\ UNCHANGED <<flights, bookings, transactions, history>>]_vars

\* A pricing call has returned its details although its FareHistory row was
\* not appended.
C17_Witness ==
    \E p \in Procs :
        /\ pc[p] = "done"
        /\ result[p] = "Priced"
        /\ tx[p].final_fare > 0
        /\ \A r \in BagToSet(tx[p].quote) : ~BagIn(r, fare_history)

C19_SeatFactorBands ==
    (pricing.call = "calculate_seat_factor" /\ pricing.total_seats >= 1)
        => LET occ == pricing.total_seats - pricing.seats_available
               ts == pricing.total_seats
           IN  /\ pricing.value \in {150, 120, 110, 95}
               /\ pricing.value = 150 <=> 5 * occ >= 4 * ts
               /\ pricing.value = 120 <=> (2 * occ >= ts /\ 5 * occ < 4 * ts)
               /\ pricing.value = 110 <=> (10 * occ >= 3 * ts /\ 2 * occ < ts)
               /\ pricing.value = 95 <=> 10 * occ < 3 * ts

\* The factor has been computed at an occupancy of exactly 0.8.
C19_Witness ==
    /\ pricing.call = "calculate_seat_factor"
    /\ pricing.total_seats >= 1
    /\ 5 * (pricing.total_seats - pricing.seats_available)
         = 4 * pricing.total_seats
    /\ pricing.value = 150

\* C20: calculate_time_factor is 0.0 exactly when fewer than 0 hours are
\* left, 1.4 from 0 to under 24 hours, 1.2 from 24 to under 72, 1.1 from 72
\* to under 168, and 1.0 from 168 hours on.
C20_TimeFactorBands ==
    pricing.call = "calculate_time_factor"
        => LET h == pricing.hours_left
           IN  /\ pricing.value = 0 <=> h < 0
               /\ (0 <= h /\ h < 24) => pricing.value = 140
               /\ (24 <= h /\ h < 72) => pricing.value = 120
               /\ (72 <= h /\ h < 168) => pricing.value = 110
               /\ h >= 168 => pricing.value = 100

\* The factor has been computed with exactly 168 hours left.
C20_Witness ==
    /\ pricing.call = "calculate_time_factor"
    /\ pricing.hours_left = 168
    /\ pricing.value = 100

\* C14: in the SQLite engine every change of a flight's seats_available is
\* a decrement by one together with a new CONFIRMED booking on that flight,
\* or an increment by one together with a booking of that flight going from
\* CONFIRMED to CANCELLED.
C14_SeatsChangeOnlyWithBookings ==
    [][\A f \in SqFlights :
         sq'.seats[f] # sq.seats[f]
            => \/ /\ sq'.seats[f] = sq.seats[f] - 1
                  /\ Len(sq'.bookings) = Len(sq.bookings) + 1
                  /\ sq'.bookings[Len(sq'.bookings)].flight_id = f
                  /\ sq'.bookings[Len(sq'.bookings)].booking_status = "CONFIRMED"
               \/ /\ sq'.seats[f] = sq.seats[f] + 1
                  /\ \E b \in 1..Len(sq.bookings) :
                        /\ sq.bookings[b].flight_id = f
                        /\ sq.bookings[b].booking_status = "CONFIRMED"
                        /\ sq'.bookings[b].booking_status = "CANCELLED"]_vars

\* C21: for fixed total_seats the seat factor never decreases as fewer seats
\* are available; for non-negative hours to departure the time factor never
\* decreases as the hours decrease; so with the demand level pinned the
\* fare never decreases along either direction.
C21_PricingMonotone ==
    /\ pricing.call = "calculate_seat_factor"
         => \A seats \in 0..pricing.seats_available :
               calculate_seat_factor(seats, pricing.total_seats) >= pricing.value
    /\ (pricing.call = "calculate_time_factor" /\ pricing.hours_left >= 0)
         => \A hours \in 0..pricing.hours_left :
               calculate_time_factor(hours, 0) >= pricing.value
    /\ pricing.call = "calculate_dynamic_fare"
         => /\ \A seats \in 0..pricing.seats_available :
                  FareOf(pricing.base_fare,
                         calculate_seat_factor(seats, pricing.total_seats),
                         calculate_time_factor(pricing.hours_left, 0),
                         demand_factor(pricing.demand_level)) >= pricing.value
            /\ pricing.hours_left >= 0
                 => \A hours \in 0..pricing.hours_left :
                       FareOf(pricing.base_fare,
                              calculate_seat_factor(pricing.seats_available,
                                                    pricing.total_seats),
                              calculate_time_factor(hours, 0),
                              demand_factor(pricing.demand_level)) >= pricing.value

\* A fare has been quoted that is strictly lower than the fare of the same
\* flight with fewer seats left, and than its fare closer to departure.
C21_Witness ==
    /\ pricing.call = "calculate_dynamic_fare"
    /\ pricing.hours_left > 24
    /\ \E seats \in 0..pricing.seats_available :
          FareOf(pricing.base_fare,
                 calculate_seat_factor(seats, pricing.total_seats),
                 calculate_time_factor(pricing.hours_left, 0),
                 demand_factor(pricing.demand_level)) > pricing.value
    /\ FareOf(pricing.base_fare,
              calculate_seat_factor(pricing.seats_available, pricing.total_seats),
              calculate_time_factor(0, 0),
              demand_factor(pricing.demand_level)) > pricing.value

\* C22: the fare of calculate_dynamic_fare is the exact product rounded to
\* 2 places half-up: whenever the product lies exactly halfway between two
\* hundredths the fare is the higher one; base fare 100.30 with factors
\* 0.95, 1.0 and 1.0 gives 95.29.
C22_FareRoundsHalfUp ==
    (pricing.call = "calculate_dynamic_fare" /\ pricing.base_fare <= FareCheckLimit)
        => LET product == pricing.base_fare
                   * (calculate_seat_factor(pricing.seats_available,
                                            pricing.total_seats) \div 5)
                   * (calculate_time_factor(pricing.hours_left, 0) \div 10)
                   * (demand_factor(pricing.demand_level) \div 5)
           IN  /\ product % 4000 = 2000
                    => pricing.value = (product \div 4000) + 1
               /\ (/\ pricing.base_fare = HalfwayFare
                   /\ calculate_seat_factor(pricing.seats_available,
                                            pricing.total_seats) = 95
                   /\ pricing.hours_left = 168
                   /\ pricing.demand_level = "LOW")
                    => pricing.value = 9529

C24_BookingLifecycle ==
    [][/\ Len(bookings') >= Len(bookings)
       /\ \A b \in BookingIds :
            /\ bookings'[b].pnr = bookings[b].pnr
            /\ bookings'[b].flight = bookings[b].flight
            /\ bookings[b].booking_status = "CANCELLED"
                 => bookings'[b].booking_status = "CANCELLED"
            /\ bookings'[b].booking_status # bookings[b].booking_status
                 => /\ bookings[b].booking_status = "CONFIRMED"
                    /\ bookings'[b].booking_status = "CANCELLED"
                    /\ \E p \in Procs : /\ pc[p] = "x_commit"
                                        /\ tx[p].booking = b
                                        /\ result'[p] = "Cancelled"]_vars

\* A cancelled booking is still stored after its seat was booked again.
C24_Witness ==
    \E b, c \in BookingIds :
        /\ b < c
        /\ bookings[b].booking_status = "CANCELLED"
        /\ bookings[c].booking_status = "CONFIRMED"
        /\ bookings[c].flight = bookings[b].flight
        /\ bookings[c].seat_number = bookings[b].seat_number

\* C25: no committed state shows an intermediate state of create_booking:
\* there is no PENDING booking, no payment transaction still INITIATED, no
\* CONFIRMED booking without its seat decrement and no seat decrement
\* without its CONFIRMED booking.
C25_NoIntermediateStateObservable ==
    /\ \A b \in BookingIds : bookings[b].booking_status # "PENDING"
    /\ \A t \in BagToSet(transactions) : t.status # "INITIATED"
    /\ \A f \in Flights :
          /\ total_seats(f) - flights[f].seats_available
                >= Cardinality(Confirmed(f))
          /\ total_seats(f) - flights[f].seats_available
                <= Cardinality(Confirmed(f))

\* C26: create_booking never creates a booking on a flight whose status is
\* not SCHEDULED or whose departure time is not strictly after the current
\* time; a call on such a flight fails with the flight-not-bookable error
\* and changes nothing.
C26_NeverBooksUnbookableFlight ==
    [][\A p \in Procs :
        LET f == tx[p].flight_id
        IN  /\ (pc[p] = "c_commit" /\ result'[p] = "Created")
                 => /\ status(f) = "SCHEDULED"
                    /\ departure_time(f) > now
            /\ (/\ pc[p] = "c_validate"
                /\ pc'[p] # pc[p]
                /\ ~(status(f) = "SCHEDULED" /\ departure_time(f) > now))
                 => /\ result'[p] = "FlightNotAvailable"
                    /\ UNCHANGED db]_vars

\* C27: PNR generation makes a bounded number of attempts: a create_booking
\* call drawing a PNR while every code is taken ends, with the explicit
\* duplicate-reference error, and so releases its lock; it does not draw
\* for ever.
C27_PnrGenerationTerminates ==
    \A p \in Procs :
        (pc[p] = "c_pnr" /\ \A code \in Codes : WithPnr(code) # {})
            ~> (pc[p] = "done" /\ result[p] = "DuplicateReference")

\* C28: at most one create_booking call per flight is between taking the
\* flight's row lock and the end of its transaction; the lock is held from
\* the read of the row to the commit, so what the call read and checked
\* (seats_available, no CONFIRMED holder of its seat) is still what is
\* stored when it decrements.
C28_FlightMutualExclusion ==
    \A p \in Procs :
        pc[p] \in CreateHolding
            => LET f == tx[p].flight_id
               IN  /\ \A q \in Procs \ {p} :
                         pc[q] \in CreateHolding => tx[q].flight_id # f
                   /\ flights[f].seats_available = tx[p].seats
                   /\ pc[p] # "c_validate"
                        => SeatHolders(f, tx[p].seat_number) = {}

\* Two create_booking calls are running at once, one about to commit.
C28_Witness ==
    \E p, q \in Procs :
        /\ pc[p] = "c_commit"
        /\ pc[q] \in CreateHolding \ {"c_validate", "c_commit"}

\* C29: a create_booking call that returns adds exactly one booking, which
\* is CONFIRMED, on the requested flight and seat, at the fare quoted in
\* the same transaction; takes exactly one from that flight's
\* seats_available; appends exactly one CREATED and one PAYMENT_SUCCESS
\* history entry for that booking; and leaves the other flights'
\* seats_available and the bookings there were unchanged.
C29_CreateEffect ==
    [][\A p \in Procs :
        (pc[p] = "c_commit" /\ result'[p] = "Created")
        => LET f == tx[p].flight_id
               b == Len(bookings) + 1
           IN  /\ Len(bookings') = b
               /\ \A a \in BookingIds : bookings'[a] = bookings[a]
               /\ bookings'[b].booking_status = "CONFIRMED"
               /\ bookings'[b].flight = f
               /\ bookings'[b].seat_number = tx[p].seat_number
               /\ \E quoted \in BagToSet(fare_history') :
                     /\ CopiesIn(quoted, fare_history')
                           = CopiesIn(quoted, fare_history) + 1
                     /\ quoted.flight = f
                     /\ quoted.calculated_fare = bookings'[b].final_fare
               /\ flights'[f].seats_available = flights[f].seats_available - 1
               /\ \A g \in Flights \ {f} : flights'[g] = flights[g]
               /\ history' = history (+)
                     SetToBag({[booking |-> b, action |-> "CREATED"],
                               [booking |-> b, action |-> "PAYMENT_SUCCESS"]})
               /\ BagCardinality(history') = BagCardinality(history) + 2]_vars

\* A create_booking has returned the second booking stored.
C29_Witness ==
    \E p \in Procs :
        /\ pc[p] = "done"
        /\ result[p] = "Created"
        /\ Len(bookings) = 2
        /\ bookings[2].pnr = tx[p].pnr
        /\ bookings[2].booking_status = "CONFIRMED"

\* C30: a cancel_booking call that returns has, in one step, set the
\* booking CANCELLED, added exactly one to its flight's seats_available,
\* appended exactly one refund payment transaction, of status REFUNDED, and
\* exactly one CANCELLED history entry, and left the booking's PNR,
\* final_fare, seat_number and flight and every other booking and flight
\* unchanged; a call in which a write fails leaves nothing behind.
C30_CancelEffect ==
    [][\A p \in Procs :
        /\ (pc[p] = "x_commit" /\ result'[p] = "Cancelled")
           => LET b == tx[p].booking
                  f == bookings[b].flight
              IN  /\ bookings' = [bookings EXCEPT
                                    ![b].booking_status = "CANCELLED"]
                  /\ flights'[f].seats_available
                        = flights[f].seats_available + 1
                  /\ \A g \in Flights \ {f} : flights'[g] = flights[g]
                  /\ BagCardinality(transactions')
                        = BagCardinality(transactions) + 1
                  /\ \E refund \in BagToSet(transactions') :
                        /\ CopiesIn(refund, transactions')
                              = CopiesIn(refund, transactions) + 1
                        /\ refund.booking = b
                        /\ refund.status = "REFUNDED"
                  /\ history' = history (+)
                        SetToBag({[booking |-> b, action |-> "CANCELLED"]})
        /\ (/\ pc[p] \in CancelHolding
            /\ pc'[p] = "done"
            /\ result'[p] # "Cancelled")
           => UNCHANGED db]_vars

\* C31: in the SQLite engine at most one CONFIRMED booking holds each
\* (flight, seat) pair, after any sequence of book_flight and
\* cancel_booking calls.
C31_SqSeatUnique ==
    \A a, b \in 1..Len(sq.bookings) :
        (/\ a # b
         /\ sq.bookings[a].flight_id = sq.bookings[b].flight_id
         /\ sq.bookings[a].seat_number = sq.bookings[b].seat_number)
        => ~(/\ sq.bookings[a].booking_status = "CONFIRMED"
             /\ sq.bookings[b].booking_status = "CONFIRMED")

\* C32: in the SQLite engine cancel_booking of a CONFIRMED booking whose
\* flight departs in 2 hours or less fails with a too-late error and leaves
\* the booking CONFIRMED and seats_available unchanged: no step takes such
\* a booking out of CONFIRMED.
C32_SqCancelCutoff ==
    [][\A b \in 1..Len(sq.bookings) :
        (/\ sq.bookings[b].booking_status = "CONFIRMED"
         /\ SqDepartureTime(sq.bookings[b].flight_id) - now <= 2)
        => sq'.bookings[b].booking_status = "CONFIRMED"]_vars

\* C33: whatever the interleaving of concurrent book_flight calls, no
\* flight's seats_available becomes negative, and the successful bookings
\* of a flight are never more than the seats it had: each one took exactly
\* one of them.
C33_SqCheckAndDecrementIndivisible ==
    \A f \in SqFlights :
        LET booked == {b \in 1..Len(sq.bookings) :
                          sq.bookings[b].flight_id = f}
        IN  /\ sq.seats[f] >= 0
            /\ Cardinality(booked) <= SqRaceSeats
            /\ sq.seats[f] + Cardinality(booked) = SqRaceSeats

\* Two calls read the last seat of one flight in overlapping transactions;
\* one has committed its booking and the other was refused by the database
\* lock.
C33_Witness ==
    \E p, q \in Procs :
        /\ p # q
        /\ tx[p].flight_id = tx[q].flight_id
        /\ tx[p].seats = 1 /\ tx[q].seats = 1
        /\ result[p] = "Booking successful"
        /\ result[q] = "Booking failed: database is locked"
        /\ sq.seats[tx[p].flight_id] = 0

\* C34: calculate_dynamic_price and get_price_breakdown put occupancy
\* exactly 0.8 in the band of seat adjustment 0.5 and occupancy exactly 0.5
\* in the band of seat adjustment 0.2, and on the same arguments, clock and
\* demand draw the two functions choose the same seat and time factors.
C34_SqBandsInclusive ==
    pricing.call \in {"calculate_dynamic_price", "get_price_breakdown"}
    => LET occupied == pricing.total_seats - pricing.seats_available
           other == IF pricing.call = "calculate_dynamic_price"
                    THEN get_price_breakdown(pricing.base_fare,
                             pricing.seats_available, pricing.total_seats,
                             pricing.hours_left, pricing.demand_level)
                    ELSE calculate_dynamic_price(pricing.base_fare,
                             pricing.seats_available, pricing.total_seats,
                             pricing.hours_left, pricing.demand_level)
       IN  /\ 10 * occupied = 8 * pricing.total_seats
                => pricing.value.seat_factor = 50
           /\ 10 * occupied = 5 * pricing.total_seats
                => pricing.value.seat_factor = 20
           /\ pricing.value.seat_factor = other.seat_factor
           /\ pricing.value.time_factor = other.time_factor

\* C35: while unused PNR codes remain and the row lock is fair, every
\* create_booking and cancel_booking call that has begun eventually
\* returns, with a booking or a failure, and then holds no flight or
\* booking row lock; in particular no set of concurrent calls waits for
\* each other forever.
C35_CallsReturn ==
    \A p \in Procs :
        (pc[p] \notin {"idle", "done"})
        ~> (/\ pc[p] = "done"
            /\ \A f \in Flights : p \notin FlightLockHolders(f)
            /\ \A b \in BookingIds : p \notin BookingLockHolders(b))

\* A cancel_booking that holds its booking's row lock is waiting for the
\* flight row, which a create_booking of another process has locked, while
\* a CONFIRMED booking exists.
C35_Witness ==
    \E p, q \in Procs :
        /\ pc[p] = "x_update"
        /\ p \in BookingLockHolders(tx[p].booking)
        /\ pc[q] \in CreateHolding
        /\ q \in FlightLockHolders(tx[p].flight_id)

\* C36: a booking stored by create_booking on a flight whose base fare is
\* positive has a positive final_fare: the zero time factor of a departed
\* flight never becomes the fare that was paid.
C36_FinalFarePositive ==
    \A b \in BookingIds :
        base_fare(bookings[b].flight) > 0 => bookings[b].final_fare > 0

\* C37: in every committed state each payment transaction row references
\* an existing booking and none is INITIATED; each booking has exactly one
\* SUCCESS row of positive amount, and its amount is the booking's
\* final_fare; each CANCELLED booking has in addition exactly one refund
\* row, whose amount is minus its final_fare.
C37_PaymentLedger ==
    /\ \A t \in BagToSet(transactions) :
          /\ t.booking \in BookingIds
          /\ t.status # "INITIATED"
    /\ \A b \in BookingIds :
          LET rows == {t \in BagToSet(transactions) : t.booking = b}
              paid == {t \in rows : t.status = "SUCCESS" /\ t.amount > 0}
              refunds == rows \ paid
          IN  /\ Cardinality(paid) = 1
              /\ \A t \in paid : /\ CopiesIn(t, transactions) = 1
                                 /\ t.amount = bookings[b].final_fare
              /\ bookings[b].booking_status = "CANCELLED"
                   => /\ Cardinality(refunds) = 1
                      /\ \A t \in refunds :
                            /\ CopiesIn(t, transactions) = 1
                            /\ t.amount = 0 - bookings[b].final_fare

\* C38: the seat of every CONFIRMED booking is one of the seats that
\* generate_seat_map lists for its flight, and the seat map of a flight
\* marks as many seats unavailable as the flight has CONFIRMED bookings,
\* which is total_seats - seats_available.
C38_BookedSeatsInLayout ==
    [][/\ \A b \in BookingIds :
           bookings[b].booking_status = "CONFIRMED"
           => LET m == generate_seat_map(bookings[b].flight, <<>>)
                  listed == m.business \o m.economy
              IN  \E i \in 1..Len(listed) :
                     listed[i].number = bookings[b].seat_number
       /\ \A p \in Procs :
           (pc[p] = "idle" /\ result'[p] = "SeatMap")
           => LET m == tx'[p].seat_map
                  f == tx'[p].flight_id
                  listed == m.business \o m.economy
                  taken == {i \in 1..Len(listed) : ~listed[i].available}
              IN  /\ Cardinality(taken) = Cardinality(Confirmed(f))
                  /\ Cardinality(taken)
                       = total_seats(f) - flights[f].seats_available]_vars

====
